---- MODULE Spec2Model ----
(***************************************************************************)
(* Message gating, model routing and usage accounting of the discordai bot *)
(* (message_filter.py, openai_integration.py, discord_bot.py).             *)
(*                                                                         *)
(* Time is the reading of the system clock in whole seconds.  Strings that *)
(* the code inspects character by character (message text, role names,     *)
(* model names) are sequences of one-character strings.                    *)
(***************************************************************************)
EXTENDS Integers, Sequences, FiniteSets, TLC

\* ------------------------------------------------------- program constants
max_tokens_per_hour == 10000
default_messages_per_minute == 5
WindowSeconds == 60
HourSeconds == 3600
command_prefix == <<"!">>
placeholder_key == "your-openai-api-key-here"

\* --------------------------------------------------------------- characters
UpperChars == <<"A","B","C","D","E","F","G","H","I","J","K","L","M",
                "N","O","P","Q","R","S","T","U","V","W","X","Y","Z">>
LowerChars == <<"a","b","c","d","e","f","g","h","i","j","k","l","m",
                "n","o","p","q","r","s","t","u","v","w","x","y","z">>
SpecialChars == {"!","@","#","$","%","^","&","*","(",")","_","+","-","=",
                 "[","]","{","}",";","'",":","\"","\\","|",",",".","<",">","?"}
WhitespaceChars == {" ", "\t", "\n"}

IsUpperChar(ch) == \E i \in 1..Len(UpperChars) : UpperChars[i] = ch
IsLowerChar(ch) == \E i \in 1..Len(LowerChars) : LowerChars[i] = ch

LowerChar(ch) ==
    IF IsUpperChar(ch)
    THEN LowerChars[CHOOSE i \in 1..Len(UpperChars) : UpperChars[i] = ch]
    ELSE ch

\* mutant: the name is taken as it was typed
Lower_asis(s) == s

\* str.lower()
Lower(s) == [i \in 1..Len(s) |-> LowerChar(s[i])]

\* str.isupper(): at least one cased character and no lower-case one
IsUpperStr(s) ==
    /\ \E i \in 1..Len(s) : IsUpperChar(s[i])
    /\ \A i \in 1..Len(s) : ~IsLowerChar(s[i])

\* `w in s` for strings
Contains(s, w) ==
    \E i \in 0..(Len(s) - Len(w)) : \A j \in 1..Len(w) : s[i + j] = w[j]

\* mutant: no text is taken to start with the prefix
StartsWith_never(s, w) == FALSE

\* s.startswith(w)
StartsWith(s, w) ==
    /\ Len(w) <= Len(s)
    /\ \A j \in 1..Len(w) : s[j] = w[j]

\* len(s.strip()) > 0
StripNonEmpty(s) == \E i \in 1..Len(s) : s[i] \notin WhitespaceChars

SpecialCount(s) == Cardinality({i \in 1..Len(s) : s[i] \in SpecialChars})

\* ------------------------------------------------------------ configuration
authorized_roles == { <<"a","d","m","i","n">>,
                      <<"m","o","d","e","r","a","t","o","r">>,
                      <<"o","p","e","n","a","i","-","u","s","e","r">>,
                      <<"p","r","e","m","i","u","m">> }
blocked_words == { <<"s","p","a","m">>,
                   <<"i","n","a","p","p","r","o","p","r","i","a","t","e">>,
                   <<"o","f","f","e","n","s","i","v","e">> }

gpt_4o == <<"g","p","t","-","4","o">>
gpt_5_nano == <<"g","p","t","-","5","-","n","a","n","o">>
gpt_5 == <<"g","p","t","-","5">>
valid_models == { gpt_4o,
                  <<"g","p","t","-","4","o","-","m","i","n","i">>,
                  <<"g","p","t","-","4">>,
                  <<"g","p","t","-","4","-","3","2","k">>,
                  gpt_5,
                  <<"g","p","t","-","5","-","m","i","n","i">>,
                  gpt_5_nano,
                  <<"o","4","-","m","i","n","i","-","d","e","e","p","-",
                    "r","e","s","e","a","r","c","h">> }
default_openai_model == gpt_5_nano
\* OPENAI_MAX_TOKENS and OPENAI_TEMPERATURE (in tenths) as __init__ defaults them
max_tokens == 500
temperature == 7

\* ------------------------------------------------------------------- inputs
Users == {"alice", "bob"}
NoId == "noid"


\* message authors as the platform hands them over.  A guild Member has all
\* attributes; a DM User has no guild_permissions/roles/premium_since; the
\* duck-typed mock of test_openai.py has guild_permissions but no roles; the
\* last one is a duck-typed author without an id attribute.
Author(id, self, perms, adm, hasroles, roles, hasprem, prem) ==
    [id |-> id, is_self |-> self, has_perms |-> perms, administrator |-> adm,
     has_roles |-> hasroles, roles |-> roles,
     has_premium |-> hasprem, premium_since |-> prem]

Admin1 == Author("alice", FALSE, TRUE, TRUE, TRUE, {}, TRUE, FALSE)
RoleUser2 == Author("bob", FALSE, TRUE, FALSE, TRUE,
                    {<<"O","p","e","n","A","I","-","U","s","e","r">>}, TRUE, FALSE)
Guest2 == Author("bob", FALSE, TRUE, FALSE, TRUE, {<<"g","u","e","s","t">>}, TRUE, FALSE)
Premium1 == Author("alice", FALSE, TRUE, FALSE, TRUE, {}, TRUE, TRUE)
DmUser1 == Author("alice", FALSE, FALSE, FALSE, FALSE, {}, FALSE, FALSE)
Mock2 == Author("bob", FALSE, TRUE, FALSE, FALSE, {}, FALSE, FALSE)
Anon == Author(NoId, FALSE, TRUE, TRUE, TRUE, {}, TRUE, FALSE)
BotSelf == Author("bob", TRUE, TRUE, TRUE, TRUE, {}, TRUE, FALSE)

Authors == {Admin1, RoleUser2, Guest2, Premium1, DmUser1, Mock2, Anon, BotSelf}

Hello == <<"H","e","l","l","o">>
Blank == <<" "," ">>
Bang == <<"!","h","i">>

Contents ==
    { Hello, <<>>, Blank,
      <<"H","E","L","L","O"," ","W","O","R","L","D">>,
      <<"n","o"," ","S","p","A","m">>,
      <<"a","!","?">>,
      Bang }

ModelInputs == { gpt_4o,
                 <<"G","P","T","-","4","o">>,
                 <<"g","p","t","-","3">> }

TokenCounts == {12, 10000}

\* what the provider (or the transport) answers to one request
Response(status, choices, text, usage, total) ==
    [status |-> status, choices |-> choices, has_text |-> text,
     has_usage |-> usage, total_tokens |-> total]

\* answers with a body; status 0 stands for a post that raised
Responses ==
    { Response(200, 1, TRUE, TRUE, n) : n \in TokenCounts }
    \cup { Response(200, 1, TRUE, FALSE, 0),
           Response(200, 1, FALSE, TRUE, 12),
           Response(200, 0, FALSE, TRUE, 12),
           Response(201, 1, TRUE, TRUE, 12),
           Response(500, 0, FALSE, FALSE, 0),
           Response(0, 0, FALSE, FALSE, 0) }

ApiKeys == {"", "unset", placeholder_key, "sk-live"}

\* ------------------------------------------------------------------- state
VARIABLES
    clock,              \* reading of datetime.utcnow() / datetime.now(utc)
    max_messages_per_minute,  \* MessageFilter.max_messages_per_minute
    enabled,            \* OpenAIIntegration.enabled
    openai_api_key,     \* OpenAIIntegration.openai_api_key ("unset" is None)
    openai_model,       \* OpenAIIntegration.openai_model
    rate_limit,         \* MessageFilter.rate_limit
    user_models,        \* OpenAIIntegration.user_models
    total_tokens_used,  \* OpenAIIntegration.total_tokens_used
    api_calls_made,     \* OpenAIIntegration.api_calls_made
    session_start,      \* OpenAIIntegration.session_start
    tasks,              \* relay coroutines suspended at an await
    http_calls,         \* requests posted to the provider so far
    sent,               \* messages delivered to the channel by relays so far
    admitted,           \* per user, the times of the admissions of the last minute
    refused,            \* per user, the time of the last refusal for the message
                        \* count since the user's last admission (-1: none)
    lockout,            \* per user, the time of the oldest entry the ledger
                        \* kept at the first refusal for the message count
                        \* since the user's last admission (-1: none)
    slots,              \* per user, beside each entry of the ledger: the relay
                        \* in flight for its message (call, 0: none) and the
                        \* tokens of its own recorded answer (own, -1: none)
    handled,            \* the answers that reached the accounting so far:
                        \* their number and the sum of their total_tokens
    ret                 \* what the last handler step returned or did

vars == <<clock, max_messages_per_minute, enabled, openai_api_key, openai_model, rate_limit, user_models,
          total_tokens_used, api_calls_made, session_start, tasks,
          http_calls, sent, admitted, refused, lockout, slots, handled, ret>>

config == <<max_messages_per_minute, enabled, openai_api_key, openai_model,
           session_start>>

\* --------------------------------------------------------- MessageFilter
NoState == [known |-> FALSE, messages |-> <<>>, tokens_used_hour |-> 0,
            last_hour_reset |-> 0]

\* message_filter.py 137-142: first contact of a user
InitUserData(ud, now) ==
    IF ud.known THEN ud
    ELSE [known |-> TRUE, messages |-> <<>>, tokens_used_hour |-> 0,
          last_hour_reset |-> now]

\* mutant: the hour has to be exceeded, not reached
ResetHour_late(ud, now) ==
    IF now - ud.last_hour_reset > HourSeconds
    THEN [ud EXCEPT !.tokens_used_hour = 0, !.last_hour_reset = now]
    ELSE ud

\* message_filter.py 146-149
ResetHour(ud, now) ==
    IF now - ud.last_hour_reset >= HourSeconds
    THEN [ud EXCEPT !.tokens_used_hour = 0, !.last_hour_reset = now]
    ELSE ud

\* mutant: an entry exactly one minute old is kept
RecentMessages_closed(messages, now) ==
    SelectSeq(messages, LAMBDA e : now - e.ts <= WindowSeconds)

\* message_filter.py 152-155 and 255-258
RecentMessages(messages, now) ==
    SelectSeq(messages, LAMBDA e : now - e.ts < WindowSeconds)

\* mutant: the message ceiling has to be exceeded, not reached
RefusedBy_over(ud) ==
    IF Len(ud.messages) > max_messages_per_minute THEN "count"
    ELSE IF ud.tokens_used_hour >= max_tokens_per_hour THEN "tokens"
    ELSE ""

\* message_filter.py 157-171: the decision on the pruned state
\* "count" / "tokens" name the ceiling that refused, "" is an admission
RefusedBy(ud) ==
    IF Len(ud.messages) >= max_messages_per_minute THEN "count"
    ELSE IF ud.tokens_used_hour >= max_tokens_per_hour THEN "tokens"
    ELSE ""

\* mutant: the admitted message is entered twice
AppendMessage_twice(ud, now) ==
    [ud EXCEPT !.messages = Append(Append(@, [ts |-> now, tokens |-> 0]),
                                   [ts |-> now, tokens |-> 0])]

\* message_filter.py 168-169
AppendMessage(ud, now) ==
    [ud EXCEPT !.messages = Append(@, [ts |-> now, tokens |-> 0])]

\* mutant: a failed rate check lets the message through
RateLimitOnError_open == FALSE

\* value returned by the except branch of _check_rate_limit (line 175)
RateLimitOnError == TRUE

\* MessageFilter._check_rate_limit: the returned flag and the new rate_limit
check_rate_limit(rl, author, now) ==
    IF author.id = NoId
    THEN [limited |-> RateLimitOnError, by |-> "error", rl |-> rl]
    ELSE LET ud0 == InitUserData(rl[author.id], now)
             ud1 == ResetHour(ud0, now)
             ud2 == [ud1 EXCEPT !.messages = RecentMessages(@, now)]
             by  == RefusedBy(ud2)
         IN  IF by # ""
             THEN [limited |-> TRUE, by |-> by,
                   rl |-> [rl EXCEPT ![author.id] = ud2]]
             ELSE [limited |-> FALSE, by |-> "",
                   rl |-> [rl EXCEPT ![author.id] = AppendMessage(ud2, now)]]

\* the attribute accesses of _check_user_authorization that raise
AuthorizationRaises(author) ==
    \/ ~author.has_perms
    \/ ~author.administrator /\ ~author.has_roles
    \/ /\ ~author.administrator
       /\ \A r \in author.roles : Lower(r) \notin authorized_roles
       /\ ~author.has_premium

\* mutant: the role names are compared as they are spelled
check_user_authorization_spelled(author) ==
    IF AuthorizationRaises(author) THEN FALSE
    ELSE \/ author.administrator
         \/ \E r \in author.roles : r \in authorized_roles
         \/ author.premium_since

\* MessageFilter._check_user_authorization
check_user_authorization(author) ==
    IF AuthorizationRaises(author) THEN FALSE
    ELSE \/ author.administrator
         \/ \E r \in author.roles : Lower(r) \in authorized_roles
         \/ author.premium_since

\* mutant: the division of line 116 yields 0 for an empty text
ContentSafetyRaises_never(content) == FALSE

\* the division of line 116 raises on an empty text
ContentSafetyRaises(content) ==
    /\ \A w \in blocked_words : ~Contains(Lower(content), w)
    /\ ~(Len(content) > 10 /\ IsUpperStr(content))
    /\ Len(content) = 0

\* mutant: capitals are not looked at
check_content_safety_nocaps(content) ==
    IF ContentSafetyRaises(content) THEN FALSE
    ELSE /\ \A w \in blocked_words : ~Contains(Lower(content), w)
         /\ ~(10 * SpecialCount(content) > 3 * Len(content))
         /\ ~(Len(content) > 2000)

\* MessageFilter._check_content_safety
check_content_safety(content) ==
    IF ContentSafetyRaises(content) THEN FALSE
    ELSE /\ \A w \in blocked_words : ~Contains(Lower(content), w)
         /\ ~(Len(content) > 10 /\ IsUpperStr(content))
         /\ ~(10 * SpecialCount(content) > 3 * Len(content))
         /\ ~(Len(content) > 2000)

\* mutant: the text is not looked at
ShouldProcess_nostrip(user_authorized, content_safe, rate_limited, content) ==
    /\ user_authorized
    /\ content_safe
    /\ ~rate_limited

\* message_filter.py 63-68
ShouldProcess(user_authorized, content_safe, rate_limited, content) ==
    /\ user_authorized
    /\ content_safe
    /\ ~rate_limited
    /\ StripNonEmpty(content)

\* mutant: the rate check is skipped once an earlier check has failed
analyze_message_shortcut(rl, author, content, now) ==
    LET ua == check_user_authorization(author)
        cs == check_content_safety(content)
        rc == IF ua /\ cs THEN check_rate_limit(rl, author, now)
              ELSE [limited |-> FALSE, by |-> "", rl |-> rl]
    IN  [user_authorized |-> ua, content_safe |-> cs,
         rate_limited |-> rc.limited, by |-> rc.by,
         should_process |-> ShouldProcess(ua, cs, rc.limited, content),
         rl |-> rc.rl]

\* MessageFilter.analyze_message: the decision and the new rate_limit
analyze_message(rl, author, content, now) ==
    LET ua == check_user_authorization(author)
        cs == check_content_safety(content)
        rc == check_rate_limit(rl, author, now)
    IN  [user_authorized |-> ua, content_safe |-> cs,
         rate_limited |-> rc.limited, by |-> rc.by,
         should_process |-> ShouldProcess(ua, cs, rc.limited, content),
         rl |-> rc.rl]

\* mutant: the hourly counter is left alone
update_token_usage_nohour(rl, user_id, token_count) ==
    IF ~rl[user_id].known THEN rl
    ELSE LET ud == rl[user_id]
             ms == IF Len(ud.messages) > 0
                   THEN [ud.messages EXCEPT ![Len(ud.messages)].tokens = token_count]
                   ELSE ud.messages
         IN  [rl EXCEPT ![user_id] = [ud EXCEPT !.messages = ms]]

\* mutant: the reported count is added to the hour's counter twice
update_token_usage_twice(rl, user_id, token_count) ==
    IF ~rl[user_id].known THEN rl
    ELSE LET ud == rl[user_id]
             ms == IF Len(ud.messages) > 0
                   THEN [ud.messages EXCEPT ![Len(ud.messages)].tokens = token_count]
                   ELSE ud.messages
         IN  [rl EXCEPT ![user_id] =
                [ud EXCEPT !.messages = ms,
                           !.tokens_used_hour = @ + token_count + token_count]]

\* MessageFilter.update_token_usage
update_token_usage(rl, user_id, token_count) ==
    IF ~rl[user_id].known THEN rl
    ELSE LET ud == rl[user_id]
             ms == IF Len(ud.messages) > 0
                   THEN [ud.messages EXCEPT ![Len(ud.messages)].tokens = token_count]
                   ELSE ud.messages
         IN  [rl EXCEPT ![user_id] =
                [ud EXCEPT !.messages = ms,
                           !.tokens_used_hour = @ + token_count]]

\* mutant: the token quota is looked at first
RateLimitStatus_tokensfirst(ud, now) ==
    IF ud.tokens_used_hour >= max_tokens_per_hour
    THEN "TOKEN_RATE_LIMITED"
    ELSE IF Len(RecentMessages(ud.messages, now)) >= max_messages_per_minute
    THEN "MESSAGE_RATE_LIMITED"
    ELSE "OK"

\* status tag of MessageFilter.get_user_usage_stats (lines 264-268)
RateLimitStatus(ud, now) ==
    IF Len(RecentMessages(ud.messages, now)) >= max_messages_per_minute
    THEN "MESSAGE_RATE_LIMITED"
    ELSE IF ud.tokens_used_hour >= max_tokens_per_hour
    THEN "TOKEN_RATE_LIMITED"
    ELSE "OK"

SumTokens(messages) ==
    LET RECURSIVE Sum(_)
        Sum(i) == IF i = 0 THEN 0 ELSE messages[i].tokens + Sum(i - 1)
    IN  Sum(Len(messages))

\* mutant: the statistics are taken the way a check looks at the user, with
\* first-contact state created and the pruned ledger written back
StatsStore_pruning(rl, user_id, now) ==
    [rl EXCEPT ![user_id] =
        [InitUserData(@, now) EXCEPT !.messages = RecentMessages(@, now)]]

\* message_filter.py 243-258: rate_limit after get_user_usage_stats; the
\* membership test adds no key and the pruned list is bound to the local
\* recent_messages, never stored
StatsStore(rl, user_id, now) == rl

\* MessageFilter.get_user_usage_stats
get_user_usage_stats(rl, user_id, now) ==
    IF ~rl[user_id].known
    THEN [messages_this_minute |-> 0, tokens_this_hour |-> 0,
          total_messages |-> 0, total_tokens |-> 0, rate_limit_status |-> "OK"]
    ELSE LET ud == rl[user_id]
         IN  [messages_this_minute |-> Len(RecentMessages(ud.messages, now)),
              tokens_this_hour |-> ud.tokens_used_hour,
              total_messages |-> Len(ud.messages),
              total_tokens |-> SumTokens(ud.messages),
              rate_limit_status |-> RateLimitStatus(ud, now)]

\* ------------------------------------------------------ OpenAIIntegration
NoOverride == [set |-> FALSE, model |-> <<>>, expires_at |-> 0]

\* mutant: the duration is dropped
set_user_model_now(store, user_id, model, duration_hours, now) ==
    [store EXCEPT ![user_id] =
        [set |-> TRUE, model |-> model, expires_at |-> now]]

\* mutant: an override that is already there keeps its expiry
set_user_model_keep(store, user_id, model, duration_hours, now) ==
    [store EXCEPT ![user_id] =
        [set |-> TRUE, model |-> model,
         expires_at |-> IF @.set THEN @.expires_at
                        ELSE now + duration_hours * HourSeconds]]

\* OpenAIIntegration.set_user_model
set_user_model(store, user_id, model, duration_hours, now) ==
    [store EXCEPT ![user_id] =
        [set |-> TRUE, model |-> model,
         expires_at |-> now + duration_hours * HourSeconds]]

\* mutant: an override lives through its expiry instant
Expired_strict(override, now) == override.expires_at < now

\* openai_integration.py 70: the test that makes an override expired
Expired(override, now) == override.expires_at <= now

\* OpenAIIntegration._cleanup_expired_models
cleanup_expired_models(store, now) ==
    [u \in DOMAIN store |->
        IF store[u].set /\ Expired(store[u], now) THEN NoOverride ELSE store[u]]

\* OpenAIIntegration.get_user_model: the model and the purged store
get_user_model(store, user_id, now) ==
    LET st == cleanup_expired_models(store, now)
    IN  [model |-> IF st[user_id].set THEN st[user_id].model ELSE openai_model,
         store |-> st]

\* OpenAIIntegration.get_user_model_info
get_user_model_info(store, user_id, now) ==
    LET st == cleanup_expired_models(store, now)
    IN  IF st[user_id].set
        THEN [model |-> st[user_id].model, is_temporary |-> TRUE,
              time_remaining |-> st[user_id].expires_at - now, store |-> st]
        ELSE [model |-> openai_model, is_temporary |-> FALSE,
              time_remaining |-> 0, store |-> st]

\* mutant: the placeholder counts as a key
Configured_placeholder(en, key) ==
    /\ en
    /\ key \notin {"", "unset"}

\* openai_integration.py 110-116: the integration is enabled and has a key
Configured(en, key) ==
    /\ en
    /\ key \notin {"", "unset"}
    /\ key # placeholder_key

\* openai_integration.py 110-121: relay_message goes on to the request
RelayProceeds(en, key, should_process) ==
    Configured(en, key) /\ should_process

models_with_fixed_temperature ==
    { gpt_5_nano, <<"g","p","t","-","o","1">>,
      <<"o","1","-","p","r","e","v","i","e","w">>,
      <<"o","1","-","m","i","n","i">> }

\* mutant: the temperature is sent to every model
SendsTemperature_always(model) == TRUE

\* openai_integration.py 198-200: no fixed-temperature name occurs in the
\* lower-cased model name
SendsTemperature(model) ==
    ~\E f \in models_with_fixed_temperature : Contains(Lower(model), f)

\* mutant: only the gpt-5 family takes max_completion_tokens
TakesCompletionTokens_gpt5(model) ==
    StartsWith(model, <<"g","p","t","-","5">>)

\* openai_integration.py 206: the model takes max_completion_tokens
TakesCompletionTokens(model) ==
    \/ StartsWith(model, <<"g","p","t","-","5">>)
    \/ StartsWith(model, <<"o">>)

\* openai_integration.py 190-209: the request body, a dict from keys to values
Payload(model) ==
    LET keys == {"model", "messages"}
                \cup (IF SendsTemperature(model) THEN {"temperature"} ELSE {})
                \cup (IF TakesCompletionTokens(model)
                      THEN {"max_completion_tokens"} ELSE {"max_tokens"})
    IN  [k \in keys |->
            CASE k = "model" -> model
              [] k = "messages" -> <<"system", "user">>
              [] k = "temperature" -> temperature
              [] OTHER -> max_tokens]

\* --------------------------------------------------------------- tasks
Idle == [pc |-> "idle", user |-> NoId, model |-> <<>>, origin |-> "",
         payload |-> <<>>]
FreeIds == {i \in DOMAIN tasks : tasks[i].pc = "idle"}
FirstFree == CHOOSE i \in FreeIds : \A j \in FreeIds : i <= j

\* the admissions of the last minute, as an observer of the calls counts them
Observe(adm, now) == SelectSeq(adm, LAMBDA t : now - t < WindowSeconds)

\* the state after construction, with the given configuration and room for
\* n relays in flight
Construct(per_minute, en, key, model, n) ==
    /\ clock = 0
    /\ max_messages_per_minute = per_minute
    /\ enabled = en
    /\ openai_api_key = key
    /\ openai_model = model
    /\ rate_limit = [u \in Users |-> NoState]
    /\ user_models = [u \in Users |-> NoOverride]
    /\ total_tokens_used = 0
    /\ api_calls_made = 0
    /\ session_start = 0
    /\ tasks = [i \in 1..n |-> Idle]
    /\ http_calls = 0
    /\ sent = 0
    /\ admitted = [u \in Users |-> <<>>]
    /\ refused = [u \in Users |-> -1]
    /\ lockout = [u \in Users |-> -1]
    /\ slots = [u \in Users |-> <<>>]
    /\ handled = [n |-> 0, tokens |-> 0]
    /\ ret = [op |-> "init"]

\* the state after construction with the default model of line 21
Start(per_minute, en, key, n) ==
    Construct(per_minute, en, key, default_openai_model, n)

\* the clock moves on
Tick(t) ==
    /\ t > clock
    /\ clock' = t
    /\ admitted' = [u \in Users |-> Observe(admitted[u], t)]
    /\ ret' = [op |-> "tick"]
    /\ UNCHANGED <<config, rate_limit, user_models, total_tokens_used,
                   api_calls_made, tasks, http_calls, sent, refused, lockout, slots, handled>>

\* relay_message from line 123 to its first suspension, the post of
\* _send_to_openai: a task waiting for the provider, and the purge done by
\* get_user_model
StartRelay(user_id, origin) ==
    /\ FreeIds # {}
    /\ \E r \in {get_user_model(user_models, user_id, clock)} :
          /\ user_models' = r.store
          /\ tasks' = [tasks EXCEPT ![FirstFree] =
                          [pc |-> "http", user |-> user_id, model |-> r.model,
                           origin |-> origin, payload |-> Payload(r.model)]]
    /\ http_calls' = http_calls + 1

\* OpenAIIntegration.relay_message up to its first suspension; origin names
\* the caller.  An author without an id makes line 131 raise inside the try.
relay_message(user_id, should_process, origin) ==
    IF RelayProceeds(enabled, openai_api_key, should_process) /\ user_id # NoId
    THEN StartRelay(user_id, origin)
    ELSE UNCHANGED <<user_models, tasks, http_calls>>

\* the ledger's companion after a check: pruned as the ledger is, and with
\* an entry for the admitted message and the relay started for it
Checked(sl, limited, call) ==
    LET kept == RecentMessages(sl, clock)
    IN  IF limited THEN kept
        ELSE Append(kept, [ts |-> clock, call |-> call, own |-> -1])

\* the lockout of user_id after the decision d of a check of their message:
\* an admission ends it, the first refusal for the message count starts it at
\* the oldest entry the ledger kept, later refusals leave it
Locked(l, d, user_id) ==
    IF d.by = ""
    THEN -1
    ELSE IF d.by # "count" \/ l >= 0
    THEN l
    ELSE IF Len(d.rl[user_id].messages) > 0
    THEN d.rl[user_id].messages[1].ts
    ELSE clock

\* DiscordBot.on_message for a message that is no command
OnMessage(author, content) ==
    /\ ~author.is_self
    /\ ~StartsWith(content, command_prefix)
    /\ \E d \in {analyze_message(rate_limit, author, content, clock)} :
          /\ rate_limit' = d.rl
          /\ admitted' = IF d.rate_limited \/ author.id = NoId THEN admitted
                         ELSE [admitted EXCEPT ![author.id] = Append(@, clock)]
          /\ refused' = IF author.id = NoId THEN refused
                        ELSE IF d.by = "count"
                        THEN [refused EXCEPT ![author.id] = clock]
                        ELSE IF d.by = ""
                        THEN [refused EXCEPT ![author.id] = -1]
                        ELSE refused
          /\ lockout' = IF author.id = NoId THEN lockout
                        ELSE [lockout EXCEPT ![author.id] = Locked(@, d, author.id)]
          /\ IF d.should_process
             THEN relay_message(author.id, d.should_process, "on_message")
             ELSE UNCHANGED <<user_models, tasks, http_calls>>
          /\ slots' = IF author.id = NoId \/ d.by = "error" THEN slots
                      ELSE [slots EXCEPT ![author.id] =
                              Checked(@, d.rate_limited,
                                      IF http_calls' > http_calls
                                      THEN FirstFree ELSE 0)]
          /\ ret' = [op |-> "on_message", user |-> author.id,
                     author |-> author, content |-> content,
                     user_authorized |-> d.user_authorized,
                     content_safe |-> d.content_safe,
                     rate_limited |-> d.rate_limited, by |-> d.by,
                     should_process |-> d.should_process,
                     waited |-> IF author.id # NoId /\ refused[author.id] >= 0
                                THEN clock - refused[author.id] ELSE -1,
                     locked |-> IF author.id # NoId
                                THEN lockout[author.id] ELSE -1]
    /\ UNCHANGED <<clock, config, total_tokens_used, api_calls_made, sent, handled>>

\* DiscordBot.on_message for the bot's own messages and for messages with the
\* command prefix: nothing is evaluated
OnIgnored(author, content) ==
    /\ author.is_self \/ StartsWith(content, command_prefix)
    /\ ret' = [op |-> "ignored", user |-> author.id,
               own |-> author.is_self,
               command |-> StartsWith(content, command_prefix)]
    /\ UNCHANGED <<clock, config, rate_limit, user_models, total_tokens_used,
                   api_calls_made, tasks, http_calls, sent, admitted, refused, lockout, slots, handled>>

\* test_openai_command: relay_message with a made-up passing filter result
TestOpenAICommand(author) ==
    /\ ~author.is_self /\ author.id # NoId
    /\ relay_message(author.id, TRUE, "test_openai")
    /\ ret' = [op |-> "test_openai", user |-> author.id]
    /\ UNCHANGED <<clock, config, rate_limit, total_tokens_used,
                   api_calls_made, sent, admitted, refused, lockout, slots, handled>>

\* model_command with a model name
ModelCommandSet(author, model_name) ==
    /\ ~author.is_self /\ author.id # NoId
    /\ \E m \in {Lower(model_name)} :
          /\ user_models' =
                IF m \in valid_models
                THEN set_user_model(user_models, author.id, m, 1, clock)
                ELSE user_models
          /\ ret' = [op |-> "model_set", user |-> author.id,
                     accepted |-> m \in valid_models, model |-> m]
    /\ UNCHANGED <<clock, config, rate_limit, total_tokens_used,
                   api_calls_made, tasks, http_calls, sent, admitted, refused, lockout, slots, handled>>

\* model_command without a model name
ModelCommandView(author) ==
    /\ ~author.is_self /\ author.id # NoId
    /\ \E info \in {get_user_model_info(user_models, author.id, clock)} :
          /\ user_models' = info.store
          /\ ret' = [op |-> "model_info", user |-> author.id,
                     model |-> info.model, is_temporary |-> info.is_temporary,
                     time_remaining |-> info.time_remaining]
    /\ UNCHANGED <<clock, config, rate_limit, total_tokens_used,
                   api_calls_made, tasks, http_calls, sent, admitted, refused, lockout, slots, handled>>

\* model_command (line 401: an absent or empty name asks for the description)
ModelCommand(author, model_name) ==
    IF model_name = <<>> THEN ModelCommandView(author)
    ELSE ModelCommandSet(author, model_name)

\* usage_command
UsageCommand(author) ==
    /\ ~author.is_self /\ author.id # NoId
    /\ \E st \in {get_user_usage_stats(rate_limit, author.id, clock)} :
          ret' = [op |-> "usage", user |-> author.id,
                  rate_limit_status |-> st.rate_limit_status]
    /\ rate_limit' = StatsStore(rate_limit, author.id, clock)
    /\ UNCHANGED <<clock, config, user_models, total_tokens_used,
                   api_calls_made, tasks, http_calls, sent, admitted, refused, lockout, slots, handled>>

\* mutant: the plain-text fallback is sent outside a try of its own
Catches_barefallback(site) ==
    CASE site = "post" -> "_send_to_openai"
      [] site = "embed" -> "_handle_openai_response"
      [] site = "fallback" -> "nobody"
      [] site = "notice" -> "notice"
      [] OTHER -> "relay_message"

\* the except clause that catches an exception raised at each place of a
\* relay: the post (line 227), the send of the embed (313, 323), the
\* fallback (319), the notice (330), anything else (140)
Catches(site) ==
    CASE site = "post" -> "_send_to_openai"
      [] site = "embed" -> "_handle_openai_response"
      [] site = "fallback" -> "fallback"
      [] site = "notice" -> "notice"
      [] OTHER -> "relay_message"

\* an exception raised at site leaves relay_message
Escapes(site, raised) == raised /\ Catches(site) = "nobody"

\* openai_integration.py 252-253: usage.get('total_tokens', 0)
TotalTokens(resp) == IF resp.has_usage THEN resp.total_tokens ELSE 0

\* mutant: an answer without choices is recorded too
Recorded_nochoices(resp) == resp.status = 200

\* mutant: the status is not looked at
Recorded_nostatus(resp) == resp.choices > 0

\* openai_integration.py 218 and 243-244: a 200 answer with a first choice
\* is the one whose usage is recorded
Recorded(resp) == resp.status = 200 /\ resp.choices > 0

\* the ledger's companion after the answer resp to relay i
Answered(sl, i, resp) ==
    [k \in DOMAIN sl |->
        IF sl[k].call = i
        THEN [sl[k] EXCEPT !.call = 0,
                           !.own = IF Recorded(resp) THEN TotalTokens(resp) ELSE -1]
        ELSE sl[k]]

\* the tally of the answers handed to _handle_openai_response (status 200,
\* line 218) that carry a first choice (line 243), after the answer resp
Handles(h, resp) ==
    IF resp.status = 200 /\ resp.choices >= 1
    THEN [n |-> h.n + 1,
          tokens |-> h.tokens + IF resp.has_usage THEN resp.total_tokens ELSE 0]
    ELSE h

\* no embed was built
NoEmbed == [model |-> <<>>, temperature |-> -1, tokens |-> -1]

\* the fields of the embed built for the answer resp (lines 283-299): the
\* model and the temperature of the configuration, and the tokens of the
\* usage (-1 stands for 'N/A')
Embed(resp) ==
    [model |-> openai_model,
     temperature |-> temperature,
     tokens |-> IF resp.has_usage THEN resp.total_tokens ELSE -1]

\* the answer to the post of task i arrives: the rest of _send_to_openai,
\* then _handle_openai_response up to the send of the embed
HttpResponse(i, resp) ==
    /\ tasks[i].pc = "http"
    /\ IF Recorded(resp)
       THEN /\ total_tokens_used' = total_tokens_used + TotalTokens(resp)
            /\ api_calls_made' = api_calls_made + 1
            /\ rate_limit' = update_token_usage(rate_limit, tasks[i].user,
                                                TotalTokens(resp))
       ELSE UNCHANGED <<total_tokens_used, api_calls_made, rate_limit>>
    /\ tasks' = [tasks EXCEPT ![i] =
                    IF Recorded(resp) /\ resp.has_text
                    THEN [@ EXCEPT !.pc = "embed"] ELSE Idle]
    /\ ret' = [op |-> "http_response", user |-> tasks[i].user,
               status |-> resp.status, recorded |-> Recorded(resp),
               tokens |-> TotalTokens(resp),
               embed |-> IF Recorded(resp) /\ resp.has_text
                         THEN Embed(resp) ELSE NoEmbed,
               escaped |-> Escapes("post", resp.status = 0)]
    /\ slots' = IF tasks[i].user = NoId THEN slots
                ELSE [slots EXCEPT ![tasks[i].user] = Answered(@, i, resp)]
    /\ handled' = Handles(handled, resp)
    /\ UNCHANGED <<clock, config, user_models, http_calls, sent, admitted, refused, lockout>>

SendOutcomes == {"ok", "HTTPException", "Exception"}

\* mutant: every failure of the embed is answered with the plain text
EmbedFailureNext_fallback(outcome) == "fallback"

\* openai_integration.py 313 and 323: the handler a failed send of the embed
\* falls into
EmbedFailureNext(outcome) ==
    IF outcome = "HTTPException" THEN "fallback" ELSE "notice"

\* channel.send(embed=embed) of task i returns or raises (lines 309-332)
EmbedResult(i, outcome) ==
    /\ tasks[i].pc = "embed"
    /\ tasks' = [tasks EXCEPT ![i] =
                    IF outcome = "ok" THEN Idle
                    ELSE [@ EXCEPT !.pc = EmbedFailureNext(outcome)]]
    /\ sent' = IF outcome = "ok" THEN sent + 1 ELSE sent
    /\ ret' = [op |-> "send", user |-> tasks[i].user,
               kind |-> "embed", delivered |-> outcome = "ok",
               escaped |-> Escapes("embed", outcome # "ok")]
    /\ UNCHANGED <<clock, config, rate_limit, user_models, total_tokens_used,
                   api_calls_made, http_calls, admitted, refused, lockout, slots, handled>>

\* the plain-text fallback (line 318) or the error notice (line 329)
\* of task i returns or raises
SecondResult(i, ok) ==
    /\ tasks[i].pc \in {"fallback", "notice"}
    /\ tasks' = [tasks EXCEPT ![i] = Idle]
    /\ sent' = IF ok THEN sent + 1 ELSE sent
    /\ ret' = [op |-> "send", user |-> tasks[i].user,
               kind |-> tasks[i].pc, delivered |-> ok,
               escaped |-> Escapes(tasks[i].pc, ~ok)]
    /\ UNCHANGED <<clock, config, rate_limit, user_models, total_tokens_used,
                   api_calls_made, http_calls, admitted, refused, lockout, slots, handled>>

\* =========================================================== specifications
\* SpecRate: the rate limiter with the default ceilings, under one user
\* whose messages are relayed (Hello) or only admitted (Blank)
MaxCallsRate == 1
MaxInFlightRate == 1
RateInstants == {0, 10, 60, 71, 3599, 3600, 3660}
RateResponses == { Response(200, 1, FALSE, TRUE, 12),
                   Response(200, 1, FALSE, TRUE, 10000),
                   Response(500, 0, FALSE, FALSE, 0) }

InitRate == Start(default_messages_per_minute, TRUE, "sk-live", MaxInFlightRate)

NextRate ==
    \/ \E t \in RateInstants : Tick(t)
    \/ \E c \in {Hello, Blank} : OnMessage(Admin1, c) /\ http_calls' <= MaxCallsRate
    \/ UsageCommand(Admin1)
    \/ \E i \in DOMAIN tasks, r \in RateResponses : HttpResponse(i, r)

SpecRate == InitRate /\ [][NextRate]_vars

\* SpecGate: the filter pipeline and the guards of the relay, under every
\* author and text and every configuration
MaxCallsGate == 1
MaxInFlightGate == 1
GatePerMinute == 2
GateInstants == {0, 60}

\* enabled with each key, and disabled with a good key
GateConfigs == {<<TRUE, key>> : key \in ApiKeys} \cup {<<FALSE, "sk-live">>}

\* one member whose permissions, roles and premium change between messages,
\* the author without an id, and the bot itself
GateAuthors ==
    {[a EXCEPT !.id = IF a.id = NoId THEN NoId ELSE "alice"] : a \in Authors}

InitGate ==
    \E cf \in GateConfigs : Start(GatePerMinute, cf[1], cf[2], MaxInFlightGate)

NextGate ==
    \/ \E t \in GateInstants : Tick(t)
    \/ \E a \in GateAuthors, c \in Contents : OnMessage(a, c) /\ http_calls' <= MaxCallsGate
    \/ \E a \in GateAuthors, c \in Contents : OnIgnored(a, c)
    \/ \E a \in {Admin1, Guest2} : TestOpenAICommand(a) /\ http_calls' <= MaxCallsGate
    \/ \E i \in DOMAIN tasks : HttpResponse(i, Response(500, 0, FALSE, FALSE, 0))

SpecGate == InitGate /\ [][NextGate]_vars

\* SpecRouter: the overrides of two users around their expiry
MaxCallsRouter == 2
MaxInFlightRouter == 1
RouterInstants == {0, 3599, 3600, 3601}

InitRouter == Start(default_messages_per_minute, TRUE, "sk-live", MaxInFlightRouter)

NextRouter ==
    \/ \E t \in RouterInstants : Tick(t)
    \/ OnMessage(Admin1, Hello) /\ http_calls' <= MaxCallsRouter
    \/ TestOpenAICommand(RoleUser2) /\ http_calls' <= MaxCallsRouter
    \/ \E a \in {Admin1, RoleUser2}, m \in ModelInputs : ModelCommandSet(a, m)
    \/ \E a \in {Admin1, RoleUser2} : ModelCommandView(a)
    \/ \E i \in DOMAIN tasks : HttpResponse(i, Response(500, 0, FALSE, FALSE, 0))

SpecRouter == InitRouter /\ [][NextRouter]_vars

\* SpecRelay: relays of one user's messages and of another user's test
\* command in flight together, under every answer of the provider and every
\* outcome of the sends
MaxCallsRelay == 2
MaxInFlightRelay == 2
RelayInstants == {0, 60}

InitRelay == Start(default_messages_per_minute, TRUE, "sk-live", MaxInFlightRelay)

NextRelay ==
    \/ \E t \in RelayInstants : Tick(t)
    \/ OnMessage(Admin1, Hello) /\ http_calls' <= MaxCallsRelay
    \/ TestOpenAICommand(RoleUser2) /\ http_calls' <= MaxCallsRelay
    \/ \E i \in DOMAIN tasks, r \in Responses : HttpResponse(i, r)
    \/ \E i \in DOMAIN tasks, o \in SendOutcomes : EmbedResult(i, o)
    \/ \E i \in DOMAIN tasks, ok \in BOOLEAN : SecondResult(i, ok)

SpecRelay == InitRelay /\ [][NextRelay]_vars

\* SpecFlight: a ceiling of two messages a minute, relays of one user's
\* messages and of another user's test command in flight together, answered
\* and delivered in every order
MaxCallsFlight == 3
MaxInFlightFlight == 2
FlightPerMinute == 2
FlightInstants == {0, 60}
FlightResponses == { Response(200, 1, TRUE, TRUE, 12),
                     Response(200, 1, FALSE, TRUE, 10000),
                     Response(200, 0, FALSE, TRUE, 12),
                     Response(500, 0, FALSE, FALSE, 0) }

InitFlight == Start(FlightPerMinute, TRUE, "sk-live", MaxInFlightFlight)

NextFlight ==
    \/ \E t \in FlightInstants : Tick(t)
    \/ OnMessage(Admin1, Hello) /\ http_calls' <= MaxCallsFlight
    \/ TestOpenAICommand(RoleUser2) /\ http_calls' <= MaxCallsFlight
    \/ \E i \in DOMAIN tasks, r \in FlightResponses : HttpResponse(i, r)
    \/ \E i \in DOMAIN tasks, o \in {"ok", "Exception"} : EmbedResult(i, o)
    \/ \E i \in DOMAIN tasks, ok \in BOOLEAN : SecondResult(i, ok)

SpecFlight == InitFlight /\ [][NextFlight]_vars

\* SpecStore: the override store under the model command of two users, with
\* names inside and outside the allow-list, and under the resolution done for
\* a relay
MaxCallsStore == 1
MaxInFlightStore == 1
StoreInstants == {0, 3599, 3600, 7199}
StoreInputs == { gpt_4o,
                 <<"G","p","t","-","5">>,
                 <<"g","p","t","-","3">>,
                 <<>> }

InitStore == Start(default_messages_per_minute, TRUE, "sk-live", MaxInFlightStore)

NextStore ==
    \/ \E t \in StoreInstants : Tick(t)
    \/ TestOpenAICommand(RoleUser2) /\ http_calls' <= MaxCallsStore
    \/ \E a \in {Admin1, RoleUser2}, m \in StoreInputs : ModelCommand(a, m)
    \/ \E i \in DOMAIN tasks : HttpResponse(i, Response(500, 0, FALSE, FALSE, 0))

SpecStore == InitStore /\ [][NextStore]_vars

\* SpecTotals: the session's counters beside the hour counters of two users
\* whose messages are relayed and answered, across an hourly reset
MaxCallsTotals == 3
MaxInFlightTotals == 1
TotalsPerMinute == 2
TotalsInstants == {0, 3600}
TotalsResponses == { Response(200, 1, FALSE, TRUE, 12),
                     Response(200, 1, FALSE, FALSE, 0),
                     Response(500, 0, FALSE, FALSE, 0) }

InitTotals == Start(TotalsPerMinute, TRUE, "sk-live", MaxInFlightTotals)

NextTotals ==
    \/ \E t \in TotalsInstants : Tick(t)
    \/ \E a \in {Admin1, RoleUser2} :
          OnMessage(a, Hello) /\ http_calls' <= MaxCallsTotals
    \/ TestOpenAICommand(RoleUser2) /\ http_calls' <= MaxCallsTotals
    \/ \E i \in DOMAIN tasks, r \in TotalsResponses : HttpResponse(i, r)

SpecTotals == InitTotals /\ [][NextTotals]_vars

\* SpecEmbed: the reply built for a relay of a user with and without an
\* override, around the override's expiry
MaxCallsEmbed == 2
MaxInFlightEmbed == 1
EmbedInstants == {0, 3600}
EmbedResponses == { Response(200, 1, TRUE, TRUE, 12),
                    Response(200, 1, TRUE, FALSE, 0),
                    Response(500, 0, FALSE, FALSE, 0) }

InitEmbed == Start(default_messages_per_minute, TRUE, "sk-live", MaxInFlightEmbed)

NextEmbed ==
    \/ \E t \in EmbedInstants : Tick(t)
    \/ \E m \in {gpt_4o, gpt_5_nano} : ModelCommandSet(Admin1, m)
    \/ OnMessage(Admin1, Hello) /\ http_calls' <= MaxCallsEmbed
    \/ \E i \in DOMAIN tasks, r \in EmbedResponses : HttpResponse(i, r)
    \/ \E i \in DOMAIN tasks, o \in SendOutcomes : EmbedResult(i, o)
    \/ \E i \in DOMAIN tasks, ok \in BOOLEAN : SecondResult(i, ok)

SpecEmbed == InitEmbed /\ [][NextEmbed]_vars

\* SpecPayload: requests built for every model the program can resolve: each
\* name of the allow-list as an override, and a default model configured as
\* shipped, as another provider name, or spelled with capitals
MaxCallsPayload == 2
MaxInFlightPayload == 1
PayloadInstants == {0, 3600}
DefaultModels == { gpt_5_nano,
                   <<"G","P","T","-","5","-","N","a","n","o">>,
                   <<"o","1","-","m","i","n","i">>,
                   <<"g","p","t","-","3",".","5">> }

InitPayload ==
    \E m \in DefaultModels :
        Construct(default_messages_per_minute, TRUE, "sk-live", m, MaxInFlightPayload)

NextPayload ==
    \/ \E t \in PayloadInstants : Tick(t)
    \/ \E m \in valid_models : ModelCommandSet(RoleUser2, m)
    \/ \E a \in {Admin1, RoleUser2} :
          TestOpenAICommand(a) /\ http_calls' <= MaxCallsPayload
    \/ \E i \in DOMAIN tasks : HttpResponse(i, Response(500, 0, FALSE, FALSE, 0))

SpecPayload == InitPayload /\ [][NextPayload]_vars

\* SpecSafety: the content check under texts in capitals and in mixed case,
\* short and long, with and without blocked words and special characters
MaxCallsSafety == 1
MaxInFlightSafety == 1
SafetyPerMinute == 2
SafetyInstants == {0, 60}
HelloWorld == <<"H","e","l","l","o"," ","W","o","r","l","d">>
SafetyContents ==
    { HelloWorld,
      <<"H","E","L","L","O"," ","W","O","R","L","D">>,
      <<"H","E","L","L","O","W","O","R","L","D">>,
      <<"H","E","L","L","O"," ","W","O","R","L","D"," ","4","2">>,
      <<"S","P","A","M"," ","A","N","D"," ","E","G","G","S">>,
      <<"S","p","a","m"," ","a","n","d"," ","e","g","g","s">>,
      <<"W","o","w","!","!","!","!","!","!","!","!">>,
      <<>> }

InitSafety == Start(SafetyPerMinute, TRUE, "sk-live", MaxInFlightSafety)

NextSafety ==
    \/ \E t \in SafetyInstants : Tick(t)
    \/ \E a \in {Admin1, Guest2}, c \in SafetyContents :
          OnMessage(a, c) /\ http_calls' <= MaxCallsSafety
    \/ \E i \in DOMAIN tasks : HttpResponse(i, Response(500, 0, FALSE, FALSE, 0))

SpecSafety == InitSafety /\ [][NextSafety]_vars

\* ==================================================================== claims
\* entries of u's ledger younger than a minute at the present clock
InWindow(u) ==
    Cardinality({i \in 1..Len(rate_limit[u].messages) :
                    clock - rate_limit[u].messages[i].ts < WindowSeconds})

\* u's hourly token quota does not refuse a check made now
TokensLeft(u) ==
    \/ ~rate_limit[u].known
    \/ rate_limit[u].tokens_used_hour < max_tokens_per_hour
    \/ clock - rate_limit[u].last_hour_reset >= HourSeconds

\* the step is a check of a message of u by on_message
CheckOf(u) == ret'.op = "on_message" /\ ret'.user = u

\* C1: under a clock that never runs backwards, the checks of one user that
\* returned not-rate-limited within any 60 seconds (w-60, w] number at most
\* max_messages_per_minute.  `admitted` holds the admissions younger than 60
\* seconds, counted apart from the ledger the code keeps; a window that holds
\* more than the ceiling ends, cut at its last admission, in a state where
\* `admitted` is that long.
C1_AdmissionsPerWindow ==
    \A u \in Users : Len(admitted[u]) <= max_messages_per_minute

C1_Witness ==
    \E u \in Users :
        /\ Len(admitted[u]) = max_messages_per_minute
        /\ admitted[u][1] < admitted[u][Len(admitted[u])]
        /\ ret.op = "on_message" /\ ret.user = u /\ ret.rate_limited

\* C2 as stated: once tokens_used_hour >= max_tokens_per_hour, a check within
\* the hour is refused, and a check at or after the hour boundary resets the
\* counter to 0 and admits.
C2_Original ==
    [][\A u \in Users :
         (CheckOf(u) /\ rate_limit[u].known
            /\ rate_limit[u].tokens_used_hour >= max_tokens_per_hour)
         => IF clock - rate_limit[u].last_hour_reset < HourSeconds
            THEN ret'.rate_limited
            ELSE rate_limit'[u].tokens_used_hour = 0 /\ ~ret'.rate_limited]_vars

\* C2 amended: once tokens_used_hour >= max_tokens_per_hour, a check within
\* the hour is refused; a check at or after the hour boundary resets the
\* counter to 0, and admits exactly when fewer than max_messages_per_minute
\* entries of the last 60 seconds remain.
C2_QuotaAndReset ==
    [][\A u \in Users :
         (CheckOf(u) /\ rate_limit[u].known
            /\ rate_limit[u].tokens_used_hour >= max_tokens_per_hour)
         => IF clock - rate_limit[u].last_hour_reset < HourSeconds
            THEN ret'.rate_limited
            ELSE /\ rate_limit'[u].tokens_used_hour = 0
                 /\ ~ret'.rate_limited <=> InWindow(u) < max_messages_per_minute]_vars

C2_Witness ==
    \E u \in Users :
        /\ ret.op = "on_message" /\ ret.user = u /\ ~ret.rate_limited
        /\ clock >= HourSeconds
        /\ rate_limit[u].last_hour_reset = clock
        /\ rate_limit[u].tokens_used_hour = 0
        /\ rate_limit[u].messages = <<[ts |-> clock, tokens |-> 0]>>
        /\ total_tokens_used >= max_tokens_per_hour

\* C7: with max_messages_per_minute = 5 and the token quota not exhausted, a
\* check is admitted while fewer than 5 entries of the last 60 seconds remain
\* (the first 5 within 10 seconds), the check that finds 5 is refused and the
\* usage statistics read right after it say MESSAGE_RATE_LIMITED, and the
\* check that follows the refusal by 61 seconds or more is admitted.
C7_FiveThenRefusedThenAdmitted ==
    [][max_messages_per_minute = 5 =>
       /\ \A u \in Users :
            CheckOf(u) =>
              /\ (InWindow(u) < 5 /\ TokensLeft(u)) => ~ret'.rate_limited
              /\ InWindow(u) >= 5 => ret'.rate_limited
              /\ (refused[u] >= 0 /\ clock - refused[u] >= 61 /\ TokensLeft(u))
                    => ~ret'.rate_limited
       /\ (/\ ret.op = "on_message" /\ ret.by = "count"
           /\ ret'.op = "usage" /\ ret'.user = ret.user)
          => ret'.rate_limit_status = "MESSAGE_RATE_LIMITED"]_vars

C7_Witness ==
    \E u \in Users :
        /\ max_messages_per_minute = 5
        /\ ret.op = "on_message" /\ ret.user = u /\ ~ret.rate_limited
        /\ ret.waited = 61
        /\ clock = 71
        /\ rate_limit[u].messages = <<[ts |-> 71, tokens |-> 0]>>

\* ---------------------------------------------------------------- SpecGate
\* C3: for every evaluated message the decision has should_process =
\* user_authorized and content_safe and not rate_limited and the text, cut of
\* its leading and trailing whitespace, is not empty.
C3_ShouldProcessFormula ==
    ret.op = "on_message" =>
        (ret.should_process <=>
            /\ ret.user_authorized
            /\ ret.content_safe
            /\ ~ret.rate_limited
            /\ \E k \in 1..Len(ret.content) :
                   ret.content[k] \notin WhitespaceChars)

\* a whitespace text of an authorized user that passes the three checks
C3_Witness ==
    /\ ret.op = "on_message"
    /\ ret.content = Blank
    /\ ret.user_authorized /\ ret.content_safe /\ ~ret.rate_limited
    /\ ~ret.should_process

\* C4: every evaluation returns a decision; when the authorization check
\* raises the decision has user_authorized false, when the content check
\* raises it has content_safe false, when the rate check raises it has
\* rate_limited true, and in each of these cases should_process is false.
C4_SubChecksDegrade ==
    ret.op = "on_message" =>
        /\ AuthorizationRaises(ret.author) => ~ret.user_authorized
        /\ ContentSafetyRaises(ret.content) => ~ret.content_safe
        /\ ret.author.id = NoId => ret.rate_limited
        /\ (\/ AuthorizationRaises(ret.author)
            \/ ContentSafetyRaises(ret.content)
            \/ ret.author.id = NoId) => ~ret.should_process

\* the rate check of an administrator without an id raised
C4_Witness ==
    /\ ret.op = "on_message" /\ ret.author = Anon /\ ret.content = Hello
    /\ ret.user_authorized /\ ret.content_safe
    /\ ret.rate_limited /\ ret.by = "error"
    /\ ~ret.should_process

\* C9: a message or a test command handled while the integration is
\* disabled, or its key is missing or the placeholder, or the decision has
\* should_process false, issues no HTTP call, starts no relay, sends nothing,
\* and leaves the usage counters and the override store unchanged; the rate
\* state is the one the evaluation of the message left (unchanged for the
\* test command).
C9_RelayNoOp ==
    [][(/\ ret'.op \in {"on_message", "test_openai"}
        /\ \/ ~enabled
           \/ openai_api_key \in {"", "unset"}
           \/ openai_api_key = placeholder_key
           \/ ret'.op = "on_message" /\ ~ret'.should_process)
       => /\ http_calls' = http_calls
          /\ tasks' = tasks
          /\ sent' = sent
          /\ total_tokens_used' = total_tokens_used
          /\ api_calls_made' = api_calls_made
          /\ user_models' = user_models
          /\ rate_limit' =
                IF ret'.op = "test_openai" THEN rate_limit
                ELSE analyze_message(rate_limit, ret'.author,
                                     ret'.content, clock).rl]_vars

\* a message that passed the filter while the key is the placeholder
C9_Witness ==
    /\ ret.op = "on_message" /\ ret.should_process
    /\ enabled /\ openai_api_key = placeholder_key
    /\ http_calls = 0 /\ sent = 0
    /\ \A i \in DOMAIN tasks : tasks[i] = Idle

\* -------------------------------------------------------------- SpecRouter
\* the model the override store st gives user u at time now
Resolved(st, u, now) ==
    IF st[u].set /\ now < st[u].expires_at THEN st[u].model ELSE openai_model

\* C5: a relay started, or a description asked, for a user with an override
\* gets the override's model at every time strictly before expires_at, and
\* the configured default at expires_at and after; a user without an
\* override gets the default.
C5_ResolveAroundExpiry ==
    [][/\ \A i \in DOMAIN tasks :
            (tasks[i].pc = "idle" /\ tasks'[i].pc = "http")
               => tasks'[i].model = Resolved(user_models, tasks'[i].user, clock)
       /\ ret'.op = "model_info"
            => ret'.model = Resolved(user_models, ret'.user, clock)]_vars

\* a relay started one second before the expiry carries the override
C5_Witness ==
    \E i \in DOMAIN tasks :
        /\ tasks[i].pc = "http" /\ tasks[i].model = gpt_4o
        /\ ret.op \in {"on_message", "test_openai"} /\ ret.user = tasks[i].user
        /\ user_models[tasks[i].user].set
        /\ clock = user_models[tasks[i].user].expires_at - 1

\* C6: a description asked right after an accepted model_command of the same
\* user, the clock not having moved, reports is_temporary, the model that
\* was set and a time remaining above 0.
C6_SetThenDescribe ==
    [][(/\ ret.op = "model_set" /\ ret.accepted
        /\ ret'.op = "model_info" /\ ret'.user = ret.user)
       => /\ ret'.is_temporary
          /\ ret'.model = ret.model
          /\ ret'.time_remaining > 0]_vars

C6_Witness ==
    /\ ret.op = "model_info" /\ ret.is_temporary
    /\ ret.model = gpt_4o
    /\ ret.time_remaining = HourSeconds
    /\ clock > 0

\* --------------------------------------------------------------- SpecRelay
\* the answer r to the post of task i arrives in this step
Answers(i, r) ==
    ret'.op = "http_response" /\ tasks[i].pc = "http" /\ HttpResponse(i, r)

\* a 200 answer with a choice and usage.total_tokens
Successful(r) == r.status = 200 /\ r.choices > 0 /\ r.has_usage

Last(seq) == seq[Len(seq)]

\* C8 as stated: a successful answer with usage.total_tokens = n to the relay
\* of an admitted message adds n to total_tokens_used, 1 to api_calls_made
\* and n to the user's tokens_used_hour, and sets the token field of the
\* user's last ledger entry to n.
C8_Original ==
    [][\A i \in DOMAIN tasks, r \in Responses :
         (Answers(i, r) /\ Successful(r) /\ tasks[i].origin = "on_message")
         => LET u == tasks[i].user
                n == r.total_tokens
            IN  /\ total_tokens_used' = total_tokens_used + n
                /\ api_calls_made' = api_calls_made + 1
                /\ rate_limit'[u].tokens_used_hour =
                      rate_limit[u].tokens_used_hour + n
                /\ Len(rate_limit'[u].messages) > 0
                /\ Last(rate_limit'[u].messages).tokens = n]_vars

\* C8 amended: ... and sets the token field of the user's last ledger entry
\* to n when the ledger still holds an entry; a ledger that a later refused
\* check pruned to empty stays empty.  Nothing else of the ledger changes.
C8_AccountingOnSuccess ==
    [][\A i \in DOMAIN tasks, r \in Responses :
         (Answers(i, r) /\ Successful(r) /\ tasks[i].origin = "on_message")
         => LET u == tasks[i].user
                n == r.total_tokens
                old == rate_limit[u].messages
                new == rate_limit'[u].messages
            IN  /\ total_tokens_used' = total_tokens_used + n
                /\ api_calls_made' = api_calls_made + 1
                /\ rate_limit[u].known
                /\ rate_limit'[u].tokens_used_hour =
                      rate_limit[u].tokens_used_hour + n
                /\ Len(new) = Len(old)
                /\ \A k \in 1..Len(old) :
                      /\ new[k].ts = old[k].ts
                      /\ new[k].tokens = IF k = Len(old) THEN n ELSE old[k].tokens
                /\ \A v \in Users \ {u} : rate_limit'[v] = rate_limit[v]]_vars

\* the one relay of the session was answered with 12 tokens
C8_Witness ==
    \E u \in Users :
        /\ ret.op = "http_response" /\ ret.user = u
        /\ ret.recorded /\ ret.tokens = 12
        /\ total_tokens_used = 12 /\ api_calls_made = 1
        /\ rate_limit[u].tokens_used_hour = 12
        /\ rate_limit[u].messages = <<[ts |-> clock, tokens |-> 12]>>

\* C10: an answer with a status other than 200, or a post that raised, ends
\* the relay: no further HTTP call, nothing recorded, nothing sent, and
\* total_tokens_used, api_calls_made and every user's tokens_used_hour and
\* ledger are unchanged.
C10_FailureIsFinal ==
    [][\A i \in DOMAIN tasks, r \in Responses :
         (Answers(i, r) /\ r.status # 200)
         => /\ tasks' = [tasks EXCEPT ![i] = Idle]
            /\ http_calls' = http_calls
            /\ ~ret'.recorded
            /\ sent' = sent
            /\ total_tokens_used' = total_tokens_used
            /\ api_calls_made' = api_calls_made
            /\ rate_limit' = rate_limit]_vars

\* the relay of an admitted message was answered with a status other than
\* 200 that carried a complete body
C10_Witness ==
    \E u \in Users :
        /\ ret.op = "http_response" /\ ret.user = u
        /\ ret.status = 201 /\ ~ret.recorded
        /\ http_calls = 1 /\ sent = 0
        /\ \A i \in DOMAIN tasks : tasks[i] = Idle
        /\ total_tokens_used = 0 /\ api_calls_made = 0
        /\ rate_limit[u].tokens_used_hour = 0
        /\ rate_limit[u].messages = <<[ts |-> clock, tokens |-> 0]>>

\* C11 as stated: a 200 answer without choices, or without usage, ends the
\* relay with nothing delivered.
C11_Original ==
    [][\A i \in DOMAIN tasks, r \in Responses :
         (Answers(i, r) /\ r.status = 200 /\ (r.choices = 0 \/ ~r.has_usage))
         => tasks'[i] = Idle /\ sent' = sent]_vars

\* C11 amended: a 200 answer without choices ends the relay: nothing is
\* delivered and nothing is recorded.  A 200 answer with a choice and a text
\* but without usage is recorded with 0 tokens and goes on to deliver its
\* reply.
C11_MalformedResponse ==
    [][\A i \in DOMAIN tasks, r \in Responses :
         (Answers(i, r) /\ r.status = 200) =>
            /\ r.choices = 0 =>
                 /\ tasks'[i] = Idle /\ sent' = sent
                 /\ total_tokens_used' = total_tokens_used
                 /\ api_calls_made' = api_calls_made
                 /\ rate_limit' = rate_limit
            /\ (r.choices > 0 /\ ~r.has_usage /\ r.has_text) =>
                 /\ tasks'[i] = [tasks[i] EXCEPT !.pc = "embed"]
                 /\ total_tokens_used' = total_tokens_used
                 /\ api_calls_made' = api_calls_made + 1]_vars

\* the reply to an answer without usage was delivered
C11_Witness ==
    /\ ret.op = "send" /\ ret.kind = "embed" /\ ret.delivered
    /\ http_calls = 1 /\ sent = 1
    /\ api_calls_made = 1 /\ total_tokens_used = 0

\* the send of the embed of task i ends with outcome o in this step
EmbedEnds(i, o) ==
    ret'.op = "send" /\ ret'.kind = "embed" /\ tasks[i].pc = "embed"
    /\ EmbedResult(i, o)

\* the second send of task i ends in this step
SecondEnds(i, ok) ==
    ret'.op = "send" /\ ret'.kind # "embed"
    /\ tasks[i].pc \in {"fallback", "notice"} /\ SecondResult(i, ok)

Beside(u) ==
    /\ Len(slots[u]) = Len(rate_limit[u].messages)
    /\ \A k \in 1..Len(slots[u]) : slots[u][k].ts = rate_limit[u].messages[k].ts

\* C14 as stated, for the calls that failed or were never issued: the ledger
\* entry of an admitted message with no relay in flight and no recorded
\* answer of its own holds 0 tokens for as long as it is in the ledger,
\* whatever the other relays of the user do.
C14_Original ==
    \A u \in Users :
        /\ Beside(u)
        /\ \A k \in 1..Len(slots[u]) :
              (slots[u][k].call = 0 /\ slots[u][k].own = -1)
                 => rate_limit[u].messages[k].tokens = 0


\* --------------------------------------------------------------- SpecFlight
\* no relay is suspended
Quiet == \A i \in DOMAIN tasks : tasks[i].pc = "idle"

\* C15: with several relays in flight that interleave at the post and at the
\* sends, whenever all relays have finished total_tokens_used equals the sum
\* of total_tokens over the answers handled so far and api_calls_made their
\* number, and no user has more than max_messages_per_minute admissions
\* within 60 seconds.
C15_NoLostUpdate ==
    /\ Quiet => /\ total_tokens_used = handled.tokens
                /\ api_calls_made = handled.n
    /\ \A u \in Users : Len(admitted[u]) <= max_messages_per_minute

\* three relays have finished, answered with 12, 12 and 10000 tokens, and the
\* user's last message was refused with the ceiling of admissions reached
C15_Witness ==
    /\ Quiet
    /\ handled = [n |-> 3, tokens |-> 10024]
    /\ api_calls_made = 3
    /\ \E u \in Users :
          /\ Len(admitted[u]) = max_messages_per_minute
          /\ refused[u] >= 0


\* ----------------------------------------------------------------- SpecRate
\* C16: at the end of every check of a message of a user, admitted or
\* refused, the user's ledger holds no entry that is 60 seconds old or older
\* at the time of the check.
C16_NoStaleEntryAfterCheck ==
    [][\A u \in Users :
         CheckOf(u) =>
            \A k \in 1..Len(rate_limit'[u].messages) :
               clock' - rate_limit'[u].messages[k].ts < WindowSeconds]_vars

\* a check made exactly 60 seconds after the user's only earlier message,
\* whose answer had been recorded with 12 tokens: the entry of that message
\* is gone and the ledger holds the new message alone
C16_Witness ==
    \E u \in Users :
        /\ ret.op = "on_message" /\ ret.user = u /\ ~ret.rate_limited
        /\ clock = WindowSeconds
        /\ rate_limit[u].tokens_used_hour = 12
        /\ rate_limit[u].messages = <<[ts |-> clock, tokens |-> 0]>>


\* C17: for every user known to the limiter, a check made less than an hour
\* after last_hour_reset leaves tokens_used_hour and last_hour_reset as they
\* are; a check made an hour or more after it sets tokens_used_hour to 0 and
\* last_hour_reset to the time of the check; and no step other than a check
\* of the user's message moves last_hour_reset or lowers tokens_used_hour.
C17_HourlyReset ==
    [][\A u \in Users :
         rate_limit[u].known =>
            LET old == rate_limit[u]
                new == rate_limit'[u]
            IN  IF CheckOf(u)
                THEN IF clock - old.last_hour_reset < HourSeconds
                     THEN /\ new.tokens_used_hour = old.tokens_used_hour
                          /\ new.last_hour_reset = old.last_hour_reset
                     ELSE /\ new.tokens_used_hour = 0
                          /\ new.last_hour_reset = clock
                ELSE /\ new.last_hour_reset = old.last_hour_reset
                     /\ new.tokens_used_hour >= old.tokens_used_hour]_vars

\* a check made exactly one hour after the user's first one, whose answer
\* had used up the quota: the counter is back at 0 and the hour starts anew
C17_Witness ==
    \E u \in Users :
        /\ ret.op = "on_message" /\ ret.user = u
        /\ clock = HourSeconds
        /\ total_tokens_used = max_tokens_per_hour
        /\ rate_limit[u].tokens_used_hour = 0
        /\ rate_limit[u].last_hour_reset = clock


\* C18: a check of a known or new user's message that returns rate-limited,
\* by the message count or by the token quota, leaves the ledger as pruning
\* left it and tokens_used_hour as the hourly reset left it; a check that
\* admits leaves the same and appends exactly one entry (now, 0).
C18_RefusalAppendsNothing ==
    [][\A u \in Users :
         CheckOf(u) =>
            LET old == rate_limit[u]
                new == rate_limit'[u]
                kept == SelectSeq(old.messages,
                                  LAMBDA e : clock - e.ts < WindowSeconds)
                due == old.known /\ clock - old.last_hour_reset >= HourSeconds
            IN  /\ new.tokens_used_hour =
                      IF due THEN 0 ELSE old.tokens_used_hour
                /\ new.messages =
                      IF ret'.rate_limited THEN kept
                      ELSE Append(kept, [ts |-> clock, tokens |-> 0])
                /\ \A v \in Users \ {u} : rate_limit'[v] = rate_limit[v]]_vars

\* a message refused by the token quota ten seconds after the user's first
\* one, whose answer had used up the quota: the ledger holds the first
\* message alone
C18_Witness ==
    \E u \in Users :
        /\ ret.op = "on_message" /\ ret.user = u
        /\ ret.rate_limited /\ ret.by = "tokens"
        /\ clock = 10
        /\ rate_limit[u].tokens_used_hour = max_tokens_per_hour
        /\ rate_limit[u].messages = <<[ts |-> 0, tokens |-> max_tokens_per_hour]>>


\* C19: get_user_usage_stats only reads: a usage command of any user, known
\* to the limiter or not, leaves every user's ledger, tokens_used_hour and
\* last_hour_reset as they were and creates no state for a user not yet
\* seen.
C19_StatsReadOnly ==
    [][ret'.op = "usage" => rate_limit' = rate_limit]_vars

\* statistics asked for when the user's hour has run out and the ledger
\* still holds an entry older than a minute, with tokens counted in the hour:
\* neither the pruning nor the reset was carried out
C19_Witness ==
    \E u \in Users :
        /\ ret.op = "usage" /\ ret.user = u
        /\ rate_limit[u].known
        /\ clock - rate_limit[u].last_hour_reset >= HourSeconds
        /\ rate_limit[u].tokens_used_hour > 0
        /\ \E k \in 1..Len(rate_limit[u].messages) :
              clock - rate_limit[u].messages[k].ts >= WindowSeconds


\* C20: the status get_user_usage_stats reports is MESSAGE_RATE_LIMITED
\* whenever the entries of the last 60 seconds number max_messages_per_minute
\* or more, whatever the token counter; TOKEN_RATE_LIMITED when they number
\* fewer and tokens_used_hour >= max_tokens_per_hour; OK otherwise.
C20_StatusPriority ==
    ret.op = "usage" =>
        LET u == ret.user
        IN  /\ InWindow(u) >= max_messages_per_minute
                  => ret.rate_limit_status = "MESSAGE_RATE_LIMITED"
            /\ (InWindow(u) < max_messages_per_minute
                /\ rate_limit[u].tokens_used_hour >= max_tokens_per_hour)
                  => ret.rate_limit_status = "TOKEN_RATE_LIMITED"
            /\ (InWindow(u) < max_messages_per_minute
                /\ rate_limit[u].tokens_used_hour < max_tokens_per_hour)
                  => ret.rate_limit_status = "OK"

\* statistics asked for with both ceilings reached
C20_Witness ==
    \E u \in Users :
        /\ ret.op = "usage" /\ ret.user = u
        /\ InWindow(u) >= max_messages_per_minute
        /\ rate_limit[u].tokens_used_hour >= max_tokens_per_hour
        /\ ret.rate_limit_status = "MESSAGE_RATE_LIMITED"


\* ---------------------------------------------------------------- SpecRelay
\* C21: in every step total_tokens_used and api_calls_made do not decrease,
\* api_calls_made grows by exactly 1 in the steps that record an answer and
\* by 0 in all others, and session_start keeps the value of construction.
C21_CountersMonotone ==
    [][/\ total_tokens_used' >= total_tokens_used
       /\ api_calls_made' >= api_calls_made
       /\ api_calls_made' - api_calls_made = handled'.n - handled.n
       /\ handled'.n - handled.n \in {0, 1}
       /\ session_start' = session_start]_vars

\* two answers recorded one after the other, the second one a minute after
\* construction and without a usage block
C21_Witness ==
    /\ ret.op = "http_response" /\ ret.recorded /\ ret.tokens = 0
    /\ api_calls_made = 2
    /\ total_tokens_used = 12
    /\ clock = 60 /\ session_start = 0


\* ---------------------------------------------------------------- SpecStore

\* C22: set_user_model(user, model, 1), as the model command calls it, leaves
\* the user with the one override [model, now + 1 hour], whatever override
\* the user had before, and leaves every other user's override as it was.
C22_SetReplaces ==
    [][(ret'.op = "model_set" /\ ret'.accepted)
       => /\ user_models'[ret'.user] =
                [set |-> TRUE, model |-> ret'.model,
                 expires_at |-> clock + 1 * HourSeconds]
          /\ \A v \in Users \ {ret'.user} : user_models'[v] = user_models[v]]_vars

\* gpt-5 set one second before the hour, after the overrides of the first
\* instant: the user's override runs until 3599 + 3600, the other user's
\* still until 3600
C22_Witness ==
    \E u \in Users, v \in Users :
        /\ u # v
        /\ ret.op = "model_set" /\ ret.accepted /\ ret.user = u
        /\ clock = 3599
        /\ user_models[u] = [set |-> TRUE, model |-> gpt_5,
                             expires_at |-> 3599 + HourSeconds]
        /\ user_models[v] = [set |-> TRUE, model |-> gpt_4o,
                             expires_at |-> HourSeconds]


\* the step resolves a user's model for a relay or describes it
Purges == ret'.op = "model_info" \/ http_calls' = http_calls + 1

\* C23: after any get_user_model or get_user_model_info executed at time
\* now, no user's override with expires_at <= now is left in the store, and
\* every override with expires_at > now is there as it was.
C23_PurgeOnAccess ==
    [][Purges =>
         \A u \in Users :
            user_models'[u] =
               IF user_models[u].set /\ user_models[u].expires_at > clock
               THEN user_models[u] ELSE NoOverride]_vars

\* a description asked at the very instant another user's override runs out,
\* that user's relay started under the override being still in flight: the
\* other override is gone, the asking user's own, set a second earlier, is
\* reported
C23_Witness ==
    \E u \in Users, v \in Users, i \in DOMAIN tasks :
        /\ u # v
        /\ ret.op = "model_info" /\ ret.user = u /\ ret.is_temporary
        /\ clock = HourSeconds
        /\ user_models[u].set /\ user_models[u].expires_at = 3599 + HourSeconds
        /\ tasks[i].pc = "http" /\ tasks[i].user = v /\ tasks[i].model = gpt_4o
        /\ ~user_models[v].set


\* name and v are the same string but for the case of the letters
SameIgnoringCase(name, v) ==
    /\ Len(name) = Len(v)
    /\ \A i \in 1..Len(v) : LowerChar(name[i]) = LowerChar(v[i])

\* the step is the model command of author a with the name typed
SetsModel(a, name) == ret'.op = "model_set" /\ ModelCommandSet(a, name)

\* C24: every override in the store names a model of the allow-list.  A
\* model command with a name that matches no entry of the list, whatever the
\* case of its letters, leaves the store unchanged; one with a name that
\* matches an entry stores that entry, in lower case, for one hour.
C24_OnlyListedModels ==
    /\ [](\A u \in Users : user_models[u].set => user_models[u].model \in valid_models)
    /\ [][\A a \in {Admin1, RoleUser2}, name \in StoreInputs \ {<<>>} :
            SetsModel(a, name) =>
               IF \E v \in valid_models : SameIgnoringCase(name, v)
               THEN /\ SameIgnoringCase(name, user_models'[a.id].model)
                    /\ \A i \in 1..Len(name) :
                          ~IsUpperChar(user_models'[a.id].model[i])
                    /\ user_models'[a.id].expires_at = clock + HourSeconds
               ELSE user_models' = user_models]_vars

\* a name typed with a capital was accepted and is stored as gpt-5 for the
\* hour that starts at the command; the other user has no override
C24_Witness ==
    \E u \in Users, v \in Users :
        /\ u # v
        /\ ret.op = "model_set" /\ ret.user = u /\ ret.accepted
        /\ user_models[u] = [set |-> TRUE, model |-> gpt_5,
                             expires_at |-> clock + HourSeconds]
        /\ ~user_models[v].set
        /\ clock = 7199


\* ----------------------------------------------------------------- SpecGate
\* what the author holds; an attribute the author's type does not have is a
\* capability the author does not hold
HoldsAdministrator(a) == a.has_perms /\ a.administrator
HoldsListedRole(a) ==
    /\ a.has_roles
    /\ \E r \in a.roles : \E e \in authorized_roles : SameIgnoringCase(r, e)
HoldsPremium(a) == a.has_premium /\ a.premium_since

\* C25: the authorization check of a message returns true exactly when the
\* author is an administrator, or one of the author's role names equals an
\* entry of authorized_roles but for the case of its letters, or the author
\* has a premium marker; it returns false otherwise.
C25_AuthorizedExactly ==
    ret.op = "on_message" =>
        (ret.user_authorized <=>
            \/ HoldsAdministrator(ret.author)
            \/ HoldsListedRole(ret.author)
            \/ HoldsPremium(ret.author))

\* the author is authorized by the role OpenAI-User alone, spelled with
\* capitals
C25_Witness ==
    /\ ret.op = "on_message"
    /\ ~HoldsAdministrator(ret.author) /\ ~HoldsPremium(ret.author)
    /\ \E r \in ret.author.roles : IsUpperChar(r[1])
    /\ ret.user_authorized


\* the user is below both ceilings for a check made now
BelowCeilings(u) == InWindow(u) < max_messages_per_minute /\ TokensLeft(u)

\* C26: the rate check runs whatever the other checks returned: a message of
\* an unauthorized author, or with an unsafe or a blank text, evaluated while
\* the user is below both ceilings is reported not rate-limited and adds one
\* entry (now, 0) to the user's ledger of the last 60 seconds.
C26_RateCheckAlwaysRuns ==
    [][\A u \in Users :
         (/\ CheckOf(u)
          /\ BelowCeilings(u)
          /\ \/ ~ret'.user_authorized
             \/ ~ret'.content_safe
             \/ \A k \in 1..Len(ret'.content) : ret'.content[k] \in WhitespaceChars)
         => /\ ~ret'.rate_limited
            /\ ~ret'.should_process
            /\ rate_limit'[u].messages =
                  Append(SelectSeq(rate_limit[u].messages,
                                   LAMBDA e : clock - e.ts < WindowSeconds),
                         [ts |-> clock, tokens |-> 0])]_vars

\* the blank message of an unauthorized author has taken the last slot of
\* the user's minute
C26_Witness ==
    \E u \in Users :
        /\ ret.op = "on_message" /\ ret.user = u
        /\ ~ret.user_authorized /\ ret.content = Blank
        /\ ~ret.rate_limited /\ ~ret.should_process
        /\ InWindow(u) = max_messages_per_minute
        /\ Last(rate_limit[u].messages) = [ts |-> clock, tokens |-> 0]


\* -------------------------------------------------------------- SpecPayload
\* the name f occurs in model, the case of the letters apart
Occurs(f, model) ==
    \E i \in 0..(Len(model) - Len(f)) :
        \A j \in 1..Len(f) : LowerChar(model[i + j]) = f[j]

\* C27: the body of every request posted has no temperature key exactly
\* when one of the fixed-temperature names occurs in the resolved model name
\* (letters compared apart from their case), and carries temperature with the
\* configured value otherwise; a request for gpt-5-nano has no temperature
\* and has max_completion_tokens, not max_tokens.
C27_TemperatureField ==
    \A i \in DOMAIN tasks :
        tasks[i].pc = "http" =>
           LET body == tasks[i].payload
               name == body["model"]
           IN  /\ name = tasks[i].model
               /\ "temperature" \notin DOMAIN body
                     <=> \E f \in models_with_fixed_temperature : Occurs(f, name)
               /\ "temperature" \in DOMAIN body
                     => body["temperature"] = temperature
               /\ name = gpt_5_nano
                     => /\ "temperature" \notin DOMAIN body
                        /\ "max_completion_tokens" \in DOMAIN body
                        /\ "max_tokens" \notin DOMAIN body

\* a request for gpt-5-nano, chosen by the user's override under another
\* default model, is in flight
C27_Witness ==
    \E i \in DOMAIN tasks :
        /\ tasks[i].pc = "http"
        /\ tasks[i].model = gpt_5_nano /\ openai_model # gpt_5_nano
        /\ DOMAIN tasks[i].payload = {"model", "messages", "max_completion_tokens"}


\* C28: the body of every request posted has exactly one of the keys
\* max_completion_tokens and max_tokens, with the configured ceiling as its
\* value: max_completion_tokens when the resolved model name starts with
\* gpt-5 or with o, max_tokens for every other name.
C28_OneTokenLimit ==
    \A i \in DOMAIN tasks :
        tasks[i].pc = "http" =>
           LET body == tasks[i].payload
               name == body["model"]
               limits == DOMAIN body \cap {"max_completion_tokens", "max_tokens"}
               marked == \/ SubSeq(name, 1, 5) = gpt_5
                         \/ SubSeq(name, 1, 1) = <<"o">>
           IN  /\ Cardinality(limits) = 1
               /\ \A k \in limits : body[k] = max_tokens
               /\ "max_completion_tokens" \in limits <=> marked

\* a request for o4-mini-deep-research is in flight: it carries temperature
\* and the ceiling under max_completion_tokens
C28_Witness ==
    \E i \in DOMAIN tasks :
        /\ tasks[i].pc = "http"
        /\ tasks[i].model[1] = "o" /\ Len(tasks[i].model) > 7
        /\ DOMAIN tasks[i].payload =
              {"model", "messages", "temperature", "max_completion_tokens"}
        /\ tasks[i].payload["max_completion_tokens"] = max_tokens


\* --------------------------------------------------------------- SpecSafety
\* the text has a letter and none of its letters is a small one
AllCapitals(c) ==
    /\ \E k \in 1..Len(c) : IsUpperChar(c[k])
    /\ \A k \in 1..Len(c) : ~IsLowerChar(c[k])

\* the text has letters of both cases
MixedCase(c) ==
    /\ \E k \in 1..Len(c) : IsUpperChar(c[k])
    /\ \E k \in 1..Len(c) : IsLowerChar(c[k])

\* a blocked word occurs in the text, the case of the letters apart
HasBlockedWord(c) == \E w \in blocked_words : Occurs(w, c)

\* C29: the content check refuses every text of more than 10 characters
\* that is all capitals, and accepts a text in mixed case that holds no
\* blocked word, has at most 3 special characters in 10 and is at most 2000
\* characters long.
C29_CapitalsRefused ==
    ret.op = "on_message" =>
        LET c == ret.content
        IN  /\ (Len(c) > 10 /\ AllCapitals(c)) => ~ret.content_safe
            /\ (/\ MixedCase(c)
                /\ ~HasBlockedWord(c)
                /\ 10 * SpecialCount(c) <= 3 * Len(c)
                /\ Len(c) <= 2000) => ret.content_safe

\* Hello World, in mixed case, was accepted and is being relayed, after a
\* message of the same user that was not
C29_Witness ==
    \E u \in Users :
        /\ ret.op = "on_message" /\ ret.user = u
        /\ ret.content = HelloWorld
        /\ ret.content_safe /\ ret.should_process
        /\ Len(rate_limit[u].messages) = 2 /\ http_calls = 1


\* C30: the content check of an empty text returns false and raises nothing
\* into the evaluation: the message gets a decision with content_safe false
\* and should_process false, and the rate check that follows it has run.
C30_EmptyTextUnsafe ==
    (ret.op = "on_message" /\ ret.content = <<>>) =>
        /\ ~ret.content_safe
        /\ ~ret.should_process
        /\ ret.by \in {"", "count", "tokens"}
        /\ ~ret.rate_limited =>
              Last(rate_limit[ret.user].messages) = [ts |-> clock, tokens |-> 0]

\* the empty message of an administrator was evaluated and admitted by the
\* rate check
C30_Witness ==
    /\ ret.op = "on_message" /\ ret.content = <<>>
    /\ ret.user_authorized /\ ~ret.content_safe
    /\ ~ret.rate_limited /\ ~ret.should_process


\* ----------------------------------------------------------------- SpecGate
\* C31 as stated: every step that posts a request to the provider is the
\* evaluation of a message that returned should_process true and appended
\* the entry (now, 0) to the ledger of its author; this includes the
\* requests of the test command.
C31_Original ==
    [][http_calls' > http_calls
       => /\ ret'.op = "on_message"
          /\ ret'.should_process
          /\ rate_limit'[ret'.user].known
          /\ Len(rate_limit'[ret'.user].messages) > 0
          /\ Last(rate_limit'[ret'.user].messages) = [ts |-> clock, tokens |-> 0]]_vars


\* ---------------------------------------------------------------- SpecRelay
\* C32 as stated: whenever the answers to all of a user's messages in the
\* ledger have been recorded and none of the relays is in flight any more,
\* every ledger entry holds the total_tokens of its own message's answer.
C32_Original ==
    \A u \in Users :
        (/\ Beside(u)
         /\ \A k \in 1..Len(slots[u]) :
               slots[u][k].call = 0 /\ slots[u][k].own >= 0)
        => \A k \in 1..Len(slots[u]) :
              rate_limit[u].messages[k].tokens = slots[u][k].own


\* ----------------------------------------------------------------- SpecRate
\* C33 as stated, for the answer that arrives late: the tokens of a message
\* admitted before the user's present last_hour_reset are not added to
\* tokens_used_hour.
C33_Original ==
    [][\A u \in Users : \A i \in DOMAIN tasks : \A k \in 1..Len(slots[u]) :
         (/\ ret'.op = "http_response" /\ ret'.user = u
          /\ tasks[i].pc = "http" /\ tasks'[i].pc # "http"
          /\ slots[u][k].call = i
          /\ slots[u][k].ts < rate_limit[u].last_hour_reset)
         => rate_limit'[u].tokens_used_hour = rate_limit[u].tokens_used_hour]_vars


\* C34 as stated: statistics asked for a user and a check of a message of
\* the same user made right after them, at the same clock reading, agree:
\* the status is OK exactly when the check returns not rate-limited.
C34_Original ==
    [][\A u \in Users :
         (ret.op = "usage" /\ ret.user = u /\ CheckOf(u))
         => (ret.rate_limit_status = "OK" <=> ~ret'.rate_limited)]_vars


RECURSIVE HourTokens(_)
\* the sum of tokens_used_hour over the users of S
HourTokens(S) ==
    IF S = {} THEN 0
    ELSE LET u == CHOOSE x \in S : TRUE
         IN  rate_limit[u].tokens_used_hour + HourTokens(S \ {u})

\* C35: in every reachable state total_tokens_used is at least the sum of
\* tokens_used_hour over all users.
C35_TotalCoversHours ==
    total_tokens_used >= HourTokens(Users)

\* both users had an answer with 12 tokens recorded; one user's hour has since
\* been reset, the other's counter still holds its 12, the total holds 24
C35_Witness ==
    /\ total_tokens_used = 24
    /\ \E u, v \in Users :
          /\ rate_limit[u].last_hour_reset = HourSeconds
          /\ rate_limit[u].tokens_used_hour = 0
          /\ rate_limit[v].tokens_used_hour = 12
    /\ HourTokens(Users) = 12


\* C36: the answers with status 200 and a non-empty choices list are each
\* accounted exactly once: in every step api_calls_made, total_tokens_used
\* and, for a user with a record, tokens_used_hour grow by what the answers
\* handled in that step reported, and no send, delivered or failed, changes
\* the counters or the ledgers.
C36_AccountedOnceForGood ==
    [][/\ api_calls_made' - api_calls_made = handled'.n - handled.n
       /\ total_tokens_used' - total_tokens_used = handled'.tokens - handled.tokens
       /\ \A u \in Users :
             (ret'.op = "http_response" /\ ret'.user = u /\ rate_limit[u].known)
             => rate_limit'[u].tokens_used_hour - rate_limit[u].tokens_used_hour
                = handled'.tokens - handled.tokens
       /\ ret'.op = "send"
          => UNCHANGED <<total_tokens_used, api_calls_made, rate_limit>>]_vars

\* the answer with 12 tokens was accounted, the embed was refused by the
\* platform and the plain-text send failed too: nothing was delivered and the
\* counters keep the answer
C36_Witness ==
    /\ ret.op = "send" /\ ret.kind = "fallback" /\ ~ret.delivered
    /\ sent = 0
    /\ handled = [n |-> 1, tokens |-> 12]
    /\ api_calls_made = 1 /\ total_tokens_used = 12
    /\ \E u \in Users : rate_limit[u].tokens_used_hour = 12


\* C37: a check of a message of a user who has been refused for the message
\* count, made 60 seconds or more after the time of the oldest entry the
\* ledger kept at the first such refusal, with the token quota not exhausted,
\* is admitted, whatever refusals the user met in between.
C37_RefusalsDoNotProlong ==
    [][\A u \in Users :
         (/\ CheckOf(u)
          /\ lockout[u] >= 0
          /\ clock - lockout[u] >= WindowSeconds
          /\ TokensLeft(u))
         => ~ret'.rate_limited]_vars

\* five admissions at 0, refusals from then on, the last of them at 10, and
\* the message sent exactly 60 seconds after the oldest entry admitted
C37_Witness ==
    \E u \in Users :
        /\ ret.op = "on_message" /\ ret.user = u /\ ~ret.rate_limited
        /\ ret.locked = 0
        /\ ret.waited = 50
        /\ clock = WindowSeconds
        /\ lockout[u] = -1
        /\ rate_limit[u].messages = <<[ts |-> clock, tokens |-> 0]>>


\* the text begins with the command prefix "!"
IsCommand(content) == Len(content) >= 1 /\ content[1] = "!"

C39_Original ==
    [][\A i \in DOMAIN tasks :
         (/\ ret'.op = "http_response"
          /\ tasks[i].pc = "http" /\ tasks'[i].pc = "embed")
         => ret'.embed.model = tasks[i].payload["model"]]_vars
====
